---- MODULE Spec2Model ----
(***************************************************************************)
(* A model of the NBT serializer of nbtx (src/src/ser.rs).                 *)
(*                                                                         *)
(* The Primary Encoder (`Serializer`) and the Probe Encoder                *)
(* (`FieldTypeSerializer`) are driven by the `Serialize` implementation of *)
(* the value being encoded.  The depth-first recursion of that driver is   *)
(* kept as an explicit call stack; every serializer method is one action.  *)
(* A test harness calls `to_bytes::<E>` repeatedly on a value chosen in    *)
(* Init (and on two values derived from it) and keeps the outcome of the   *)
(* previous call, so that two encodes can be compared.                     *)
(***************************************************************************)
EXTENDS Integers, Sequences, FiniteSets, TLC

\* ------------------------------------------------------------------ bounds
\* Longest child list of the flat containers of the input universe.
MaxLen == 2
\* Number of wrapping levels of the nested inputs of the input universe.
MaxDepth == 2
\* Largest capacity of the fixed-size sink handed to to_bytes_in.
MaxCap == 6

\* ------------------------------------------------------ tag vocabulary
\* `FieldType as u8`: the enum lives in the crate root; values per spec §3.
FieldType_End == 0
FieldType_Byte == 1
FieldType_Short == 2
FieldType_Int == 3
FieldType_Long == 4
FieldType_Float == 5
FieldType_Double == 6
FieldType_ByteArray == 7
FieldType_String == 8
FieldType_List == 9
FieldType_Compound == 10

\* `Variant`, the value of `E::AS_ENUM`.
Variants == {"BigEndian", "LittleEndian", "NetworkEndian"}

\* ------------------------------------------------- byte-level primitives
RECURSIVE ByteAt(_, _)
\* Byte k (0 = least significant) of the two's complement form of v.
ByteAt(v, k) == IF k = 0 THEN v % 256 ELSE ByteAt(v \div 256, k - 1)

\* byteorder: write_iN::<LittleEndian> / write_uN::<LittleEndian>, n bytes.
LEBytes(v, n) == [k \in 1..n |-> ByteAt(v, k - 1)]

\* byteorder: write_iN::<BigEndian> / write_uN::<BigEndian>, n bytes.
BEBytes(v, n) == [k \in 1..n |-> ByteAt(v, n - k)]

RECURSIVE UVarint(_)
\* varint_rs write_u32_varint / write_u64_varint: 7 bits per byte, low
\* group first, bit 7 set on every byte but the last.
UVarint(u) == IF u < 128 THEN <<u>>
              ELSE <<(u % 128) + 128>> \o UVarint(u \div 128)

\* varint_rs zigzag mapping of a signed value: (v << 1) ^ (v >> 31).
Zigzag(v) == IF v >= 0 THEN 2 * v ELSE (-2 * v) - 1

\* varint_rs write_i32_varint / write_i64_varint.
IVarint(v) == UVarint(Zigzag(v))

Reverse(s) == [k \in 1..Len(s) |-> s[Len(s) + 1 - k]]

\* A plausible slip: the length is cast to one byte too narrow a type.
AsU16_u8(n) == n % 256

\* `x as u16` of a usize.
AsU16(n) == n % 65536

\* ------------------------------------ variant-governed field encodings
\* serialize_i16: the bytes written for v.
I16Bytes(e, v) ==
    IF e = "BigEndian" THEN BEBytes(v, 2) ELSE LEBytes(v, 2)

\* A plausible slip in serialize_i32: the two fixed-width arms swapped.
I32Bytes_swapped(e, v) ==
    CASE e = "BigEndian" -> LEBytes(v, 4)
      [] e = "LittleEndian" -> BEBytes(v, 4)
      [] OTHER -> IVarint(v)

\* serialize_i32: the bytes written for v.
I32Bytes(e, v) ==
    CASE e = "BigEndian" -> BEBytes(v, 4)
      [] e = "LittleEndian" -> LEBytes(v, 4)
      [] OTHER -> IVarint(v)

\* serialize_i64: the bytes written for v.
I64Bytes(e, v) ==
    CASE e = "BigEndian" -> BEBytes(v, 8)
      [] e = "LittleEndian" -> LEBytes(v, 8)
      [] OTHER -> IVarint(v)

\* serialize_f32 / serialize_f64: bits is the IEEE-754 bit pattern of the
\* float, most significant byte first.
FloatBytes(e, bits) == IF e = "BigEndian" THEN bits ELSE Reverse(bits)

\* The length field of serialize_str (n = v.len()).
StrLenBytes(e, n) ==
    CASE e = "BigEndian" -> BEBytes(AsU16(n), 2)
      [] e = "LittleEndian" -> LEBytes(AsU16(n), 2)
      [] OTHER -> UVarint(n)

\* A plausible slip: the network count written without the zigzag step.
CountBytes_unsigned(e, n) ==
    CASE e = "BigEndian" -> BEBytes(n, 4)
      [] e = "LittleEndian" -> LEBytes(n, 4)
      [] OTHER -> UVarint(n)

\* The count field of serialize_bytes and of the list header
\* (n = v.len() as i32, resp. self.len as i32).
CountBytes(e, n) ==
    CASE e = "BigEndian" -> BEBytes(n, 4)
      [] e = "LittleEndian" -> LEBytes(n, 4)
      [] OTHER -> IVarint(n)

\* The length field of a struct field name (n = key.len()).
KeyLenBytes(e, n) ==
    CASE e = "LittleEndian" -> LEBytes(AsU16(n), 2)
      [] e = "BigEndian" -> BEBytes(AsU16(n), 2)
      [] OTHER -> UVarint(n)

\* ------------------------------------------------------------- values
\* The shapes a value announces through the serde data model: the kind names
\* the Serializer method its Serialize implementation calls.
Bool(b) == [kind |-> "bool", flag |-> b]
I8(v) == [kind |-> "i8", val |-> v]
I16(v) == [kind |-> "i16", val |-> v]
I32(v) == [kind |-> "i32", val |-> v]
I64(v) == [kind |-> "i64", val |-> v]
F32(bits) == [kind |-> "f32", bits |-> bits]
F64(bits) == [kind |-> "f64", bits |-> bits]
Str(b) == [kind |-> "str", bytes |-> b]
\* The string `b.repeat(n)`, kept as written until it is serialized.
StrRepeat(b, n) == [kind |-> "str", bytes |-> b, times |-> n]
\* The bytes of the &str that serialize_str receives.
StrBytes(v) ==
    IF "times" \in DOMAIN v
    THEN [i \in 1..(Len(v.bytes) * v.times) |->
             v.bytes[((i - 1) % Len(v.bytes)) + 1]]
    ELSE v.bytes
Bytes(b) == [kind |-> "bytes", bytes |-> b]
None == [kind |-> "none"]
Some(x) == [kind |-> "some", inner |-> x]
\* A sequence of known length: serialize_seq(Some(len)).
Vec(xs) == [kind |-> "seq", len |-> <<Len(xs)>>, elems |-> xs]
\* A sequence that does not know its length: serialize_seq(None).
SeqUnknown(xs) == [kind |-> "seq", len |-> <<>>, elems |-> xs]
\* A sequence whose Serialize impl declares Some(n) and supplies xs.
SeqDeclared(n, xs) == [kind |-> "seq", len |-> <<n>>, elems |-> xs]
Tuple(xs) == [kind |-> "tuple", size |-> Len(xs), elems |-> xs]
\* entries: a sequence of <<key value, value>>.
Map(es) == [kind |-> "map", entries |-> es]
\* fields: a sequence of <<key bytes, value>>.
Struct(n, fs) == [kind |-> "struct", name |-> n, fields |-> fs]
\* A shape without payload of interest (u32, unit, enum variants, ...).
Shape(k) == [kind |-> k]

\* The types of forward_unsupported! / forward_unsupported_field!.
ForwardUnsupported == {"char", "u8", "u16", "u32", "u64", "i128"}

\* The remaining shapes both encoders reject by an explicit method.
RejectedShapes ==
    {"unit", "unit_struct", "unit_variant", "newtype_struct",
     "newtype_variant", "tuple_struct", "tuple_variant", "struct_variant"}

\* ----------------------------------------------------- input universe
I32Samples == {5, -1, 300, 0}
NameSamples == {<<>>, <<82>>}
KeySamples == {<<97>>, <<97, 98>>}

Scalars ==
    {Bool(TRUE), Bool(FALSE), I8(-1), I8(7), I16(258), I16(-2),
     I64(5), I64(-300), F32(<<63, 128, 0, 0>>),
     F64(<<63, 240, 0, 0, 0, 0, 0, 1>>),
     Str(<<>>), Str(<<97>>), Str(<<104, 105>>),
     Bytes(<<>>), Bytes(<<1, 2>>)}
    \cup {I32(v) : v \in I32Samples}

Leaves ==
    Scalars \cup {Shape(k) : k \in ForwardUnsupported \cup RejectedShapes}
            \cup {None}

\* The children of the flat containers and the seeds of the nested ones.
Kids == {I32(5), Str(<<97>>), None, Some(Str(<<97>>)), Shape("u32")}

Atoms == Leaves \cup {Some(x) : x \in Kids \cup {Shape("unit")}}

Lists(S, n) == UNION {[1..k -> S] : k \in 0..n}

FieldKey(i) == <<96 + i>>
Fields(xs) == [i \in 1..Len(xs) |-> <<FieldKey(i), xs[i]>>]
Entries(xs) == [i \in 1..Len(xs) |-> <<Str(<<106 + i>>), xs[i]>>]

Containers(xs) ==
    {Vec(xs), Tuple(xs), Map(Entries(xs)), Struct(<<82>>, Fields(xs))}

\* Containers of depth one: every child list over Kids, every single Atom.
Flat ==
    UNION {Containers(xs) : xs \in Lists(Kids, MaxLen)}
    \cup UNION {Containers(<<x>>) : x \in Atoms}

\* Root records with one 32-bit integer field.
Records ==
    {Struct(n, <<<<f, I32(v)>>>>) :
        n \in NameSamples, f \in KeySamples, v \in I32Samples}

\* Sequences of 32-bit integers.
IntLists == {Vec(xs) : xs \in Lists({I32(1), I32(-150)}, MaxLen + 1)}

Seeds ==
    {I32(5), None, Some(Str(<<97>>)), Shape("u32"), Vec(<<>>),
     Vec(<<I32(5), I32(-1)>>), Struct(<<82>>, <<>>), Map(<<>>),
     SeqUnknown(<<I32(5)>>)}

Wrap(x) ==
    {Vec(<<x>>), Vec(<<x, x>>), Tuple(<<I32(5), x>>),
     Struct(<<82>>, Fields(<<x>>)), Struct(<<83>>, Fields(<<None, x>>)),
     Map(Entries(<<x>>)), Map(<<<<I32(5), x>>>>)}

RECURSIVE Nest(_)
Nest(d) == IF d = 0 THEN Seeds
           ELSE LET S == Nest(d - 1) IN S \cup UNION {Wrap(x) : x \in S}

\* Sequences that declare a length other than the number they supply.
Misdeclared ==
    {SeqDeclared(2, <<>>), SeqDeclared(MaxLen + 1, <<I32(5)>>),
     Vec(<<SeqDeclared(2, <<>>), I32(5)>>),
     Vec(<<SeqDeclared(1, <<I32(5), I32(-1)>>), I32(5)>>)}

\* Strings and names at and beyond the range of a 16-bit length field.
LongLens == {300, 65535, 65536, 65836}
Fill(n) == [i \in 1..n |-> 97]
Long ==
    {StrRepeat(<<97>>, n) : n \in LongLens}
    \cup {Struct(<<82>>, <<<<Fill(n), Str(<<97>>)>>>>) : n \in {300, 65836}}
    \cup {Struct(<<82>>, <<<<<<97>>, StrRepeat(<<97>>, 65536)>>>>),
          Struct(Fill(65536), <<>>)}

Values ==
    Atoms \cup Flat \cup Records \cup IntLists \cup Nest(MaxDepth)
          \cup Misdeclared \cup Long

\* ------------------------------------------- values derived by the harness
IsPresent(f) == f[2].kind # "none"

RECURSIVE Strip(_)
\* v with every struct field that holds an absent optional removed.
Strip(v) ==
    CASE v.kind = "struct" ->
           LET fs == SelectSeq(v.fields, IsPresent)
           IN  [v EXCEPT !.fields =
                    [i \in 1..Len(fs) |-> <<fs[i][1], Strip(fs[i][2])>>]]
      [] v.kind = "map" ->
           [v EXCEPT !.entries =
               [i \in 1..Len(v.entries) |->
                    <<v.entries[i][1], Strip(v.entries[i][2])>>]]
      [] v.kind \in {"seq", "tuple"} ->
           [v EXCEPT !.elems = [i \in 1..Len(v.elems) |-> Strip(v.elems[i])]]
      [] OTHER -> v

RECURSIVE Peel(_)
Peel(v) == IF v.kind = "some" THEN Peel(v.inner) ELSE v

RECURSIVE Unwrap(_)
\* v with every struct field that holds a present optional replaced by the
\* value the optional wraps.
Unwrap(v) ==
    CASE v.kind = "struct" ->
           [v EXCEPT !.fields =
               [i \in 1..Len(v.fields) |->
                    <<v.fields[i][1], Unwrap(Peel(v.fields[i][2]))>>]]
      [] v.kind = "map" ->
           [v EXCEPT !.entries =
               [i \in 1..Len(v.entries) |->
                    <<v.entries[i][1], Unwrap(v.entries[i][2])>>]]
      [] v.kind \in {"seq", "tuple"} ->
           [v EXCEPT !.elems = [i \in 1..Len(v.elems) |-> Unwrap(v.elems[i])]]
      [] OTHER -> v

Transform(t, v) ==
    CASE t = "strip" -> Strip(v)
      [] t = "unwrap" -> Unwrap(v)
      [] OTHER -> v

\* The encodes the harness runs for v: v itself and the derived values that
\* differ from it.
Xforms(v) == {"id"} \cup {t \in {"strip", "unwrap"} : Transform(t, v) # v}

\* ------------------------------------------------------ Probe Encoder
\* A plausible slip: the probe of a sequence also writes a count byte.
ProbeTag_listCount(t) ==
    [bytes |-> IF t = FieldType_List THEN <<t, 0>> ELSE <<t>>,
     res |-> "false"]

\* The outcome of `value.serialize(FieldTypeSerializer::new(ser))`:
\* the bytes appended to ser.writer and the result, "false" / "true" for
\* Ok(should_skip) and "err" for Err(NbtError::Unsupported).
ProbeTag(t) == [bytes |-> <<t>>, res |-> "false"]

RECURSIVE FieldTypeSerializer(_)
FieldTypeSerializer(v) ==
    CASE v.kind \in {"bool", "i8"} -> ProbeTag(FieldType_Byte)
      [] v.kind = "i16" -> ProbeTag(FieldType_Short)
      [] v.kind = "i32" -> ProbeTag(FieldType_Int)
      [] v.kind = "i64" -> ProbeTag(FieldType_Long)
      [] v.kind = "f32" -> ProbeTag(FieldType_Float)
      [] v.kind = "f64" -> ProbeTag(FieldType_Double)
      [] v.kind = "str" -> ProbeTag(FieldType_String)
      [] v.kind = "bytes" -> ProbeTag(FieldType_ByteArray)
      [] v.kind = "none" -> [bytes |-> <<>>, res |-> "true"]
      [] v.kind = "some" ->
           LET r == FieldTypeSerializer(v.inner)
           IN  IF r.res = "err" THEN r
               ELSE [bytes |-> r.bytes, res |-> "false"]
      \* serialize_seq ignores _len; serialize_element and end write nothing
      [] v.kind \in {"seq", "tuple"} -> ProbeTag(FieldType_List)
      [] v.kind \in {"map", "struct"} -> ProbeTag(FieldType_Compound)
      [] OTHER -> [bytes |-> <<>>, res |-> "err"]

\* ------------------------------------------------------------- state
VARIABLES
    value,       \* the value the harness encodes
    variant,     \* E::AS_ENUM of the running (or last) to_bytes::<E> call
    xform,       \* which derived value this call encodes
    stack,       \* the driver's call stack, innermost frame first
    status,      \* "running", "ok" or "unsupported"
    writer,      \* Serializer.writer: the bytes in the sink
    is_initial,  \* Serializer.is_initial
    len,         \* Serializer.len
    log,         \* history: what each write was, compounds entered
    prev,        \* outcome of the previous to_bytes call
    cap          \* the sink: <<>> for a Vec, <<n>> for a buffer of n bytes

vars == <<value, variant, xform, stack, status, writer, is_initial, len,
          log, prev, cap>>

\* The value handed to the running call.
input == Transform(xform, value)

Item(k, b) == [k |-> k, b |-> b]

RECURSIVE Cat(_)
\* The bytes of a sequence of log items.
Cat(items) == IF items = <<>> THEN <<>>
              ELSE Head(items).b \o Cat(Tail(items))

ValueFrame(v) == [f |-> "value", v |-> v]
Top == Head(stack)
AtValue(k) == /\ status = "running" /\ stack # <<>>
              /\ Top.f = "value" /\ Top.v.kind = k
AtFrame(f) == /\ status = "running" /\ stack # <<>> /\ Top.f = f

\* The sink accepts all the bytes of items.
Fits(items) == cap = <<>> \/ Len(writer) + Len(Cat(items)) <= cap[1]

RECURSIVE Truncate(_, _)
\* The part of items a sink with room for n more bytes takes: write_all
\* stores what fits and fails, later writes are not attempted.
Truncate(items, n) ==
    IF items = <<>> THEN <<>>
    ELSE IF Len(Head(items).b) <= n
         THEN <<Head(items)>> \o Truncate(Tail(items), n - Len(Head(items).b))
         ELSE <<Item(Head(items).k, SubSeq(Head(items).b, 1, n))>>

\* What reaches the sink of the writes of items.
Written(items) ==
    IF Fits(items) THEN items ELSE Truncate(items, cap[1] - Len(writer))

\* Append items to the sink, continue with the given call stack; a write
\* the sink rejects is propagated by `?` as an I/O error.
Go(items, stk) ==
    /\ writer' = writer \o Cat(Written(items))
    /\ log' = log \o Written(items)
    /\ stack' = IF Fits(items) THEN stk ELSE <<>>
    /\ status' = IF Fits(items) THEN "running" ELSE "io"
    /\ UNCHANGED <<value, variant, xform, prev, cap>>

\* A transactional variant: a failed encode leaves an empty sink.
Unsupported_rollback(items) ==
    /\ writer' = <<>>
    /\ log' = <<>>
    /\ stack' = <<>>
    /\ status' = IF Fits(items) THEN "unsupported" ELSE "io"
    /\ UNCHANGED <<value, variant, xform, prev, cap>>

\* Err(NbtError::Unsupported), propagated by `?` up to to_bytes, after the
\* given items were written.
Unsupported(items) ==
    /\ writer' = writer \o Cat(Written(items))
    /\ log' = log \o Written(items)
    /\ stack' = <<>>
    /\ status' = IF Fits(items) THEN "unsupported" ELSE "io"
    /\ UNCHANGED <<value, variant, xform, prev, cap>>

\* A leaf method: write the payload, return Ok(()).
Leaf(items) == Go(items, Tail(stack)) /\ UNCHANGED <<is_initial, len>>

NoPrev == [status |-> "none", variant |-> "BigEndian", xform |-> "id",
           writer |-> <<>>, log |-> <<>>]

\* Serializer::new inside the first to_bytes call.
Init ==
    /\ value \in Values
    /\ variant \in Variants
    /\ xform \in Xforms(value)
    /\ stack = <<ValueFrame(Transform(xform, value))>>
    /\ status = "running"
    /\ writer = <<>>
    /\ is_initial = TRUE
    /\ len = 0
    /\ log = <<>>
    /\ prev = NoPrev
    /\ cap = <<>>

\* A further call of to_bytes::<e> by the harness: a fresh serializer.
to_bytes(e, t) ==
    /\ status # "running"
    /\ t \in Xforms(value)
    /\ prev' = [status |-> status, variant |-> variant, xform |-> xform,
                writer |-> writer, log |-> log]
    /\ variant' = e
    /\ xform' = t
    /\ stack' = <<ValueFrame(Transform(t, value))>>
    /\ status' = "running"
    /\ writer' = <<>>
    /\ is_initial' = TRUE
    /\ len' = 0
    /\ log' = <<>>
    /\ UNCHANGED <<value, cap>>

\* to_bytes: v.serialize(&mut ser) returned Ok, Ok(ser.into_inner()).
to_bytes_return ==
    /\ status = "running" /\ stack = <<>>
    /\ status' = "ok"
    /\ UNCHANGED <<value, variant, xform, stack, writer, is_initial, len,
                   log, prev, cap>>

\* ------------------------------------------- Primary Encoder: leaves
forward_unsupported ==
    /\ \E ty \in ForwardUnsupported : AtValue(ty)
    /\ Unsupported(<<>>)
    /\ UNCHANGED <<is_initial, len>>

serialize_bool ==
    /\ AtValue("bool")
    /\ Leaf(<<Item("byte", <<IF Top.v.flag THEN 1 ELSE 0>>)>>)

serialize_i8 ==
    /\ AtValue("i8")
    /\ Leaf(<<Item("byte", <<Top.v.val % 256>>)>>)

serialize_i16 ==
    /\ AtValue("i16")
    /\ Leaf(<<Item("i16", I16Bytes(variant, Top.v.val))>>)

serialize_i32 ==
    /\ AtValue("i32")
    /\ Leaf(<<Item("i32", I32Bytes(variant, Top.v.val))>>)

serialize_i64 ==
    /\ AtValue("i64")
    /\ Leaf(<<Item("i64", I64Bytes(variant, Top.v.val))>>)

serialize_f32 ==
    /\ AtValue("f32")
    /\ Leaf(<<Item("f32", FloatBytes(variant, Top.v.bits))>>)

serialize_f64 ==
    /\ AtValue("f64")
    /\ Leaf(<<Item("f64", FloatBytes(variant, Top.v.bits))>>)

\* The two writes of serialize_str: the length field, then the bytes.
StrItems(e, b) == <<Item("strlen", StrLenBytes(e, Len(b))), Item("str", b)>>

serialize_str ==
    /\ AtValue("str")
    /\ Leaf(StrItems(variant, StrBytes(Top.v)))

serialize_bytes ==
    /\ AtValue("bytes")
    /\ Leaf(<<Item("count", CountBytes(variant, Len(Top.v.bytes))),
              Item("blob", Top.v.bytes)>>)

serialize_none ==
    /\ AtValue("none")
    /\ Unsupported(<<>>)
    /\ UNCHANGED <<is_initial, len>>

\* A plausible slip: the Primary Encoder looks through a present optional.
serialize_some_inner ==
    /\ AtValue("some")
    /\ Go(<<>>, <<ValueFrame(Top.v.inner)>> \o Tail(stack))
    /\ UNCHANGED <<is_initial, len>>

serialize_some ==
    /\ AtValue("some")
    /\ Unsupported(<<>>)
    /\ UNCHANGED <<is_initial, len>>

\* A plausible slip: unit is accepted as a value without payload.
serialize_unit_accepted ==
    /\ AtValue("unit")
    /\ Leaf(<<>>)

serialize_unit ==
    /\ AtValue("unit")
    /\ Unsupported(<<>>)
    /\ UNCHANGED <<is_initial, len>>

serialize_unit_struct ==
    /\ AtValue("unit_struct")
    /\ Unsupported(<<>>)
    /\ UNCHANGED <<is_initial, len>>

serialize_unit_variant ==
    /\ AtValue("unit_variant")
    /\ Unsupported(<<>>)
    /\ UNCHANGED <<is_initial, len>>

serialize_newtype_struct ==
    /\ AtValue("newtype_struct")
    /\ Unsupported(<<>>)
    /\ UNCHANGED <<is_initial, len>>

serialize_newtype_variant ==
    /\ AtValue("newtype_variant")
    /\ Unsupported(<<>>)
    /\ UNCHANGED <<is_initial, len>>

serialize_tuple_struct ==
    /\ AtValue("tuple_struct")
    /\ Unsupported(<<>>)
    /\ UNCHANGED <<is_initial, len>>

serialize_tuple_variant ==
    /\ AtValue("tuple_variant")
    /\ Unsupported(<<>>)
    /\ UNCHANGED <<is_initial, len>>

serialize_struct_variant ==
    /\ AtValue("struct_variant")
    /\ Unsupported(<<>>)
    /\ UNCHANGED <<is_initial, len>>

\* --------------------------------------- Primary Encoder: sequences
SeqFrame(f, xs) == [f |-> f, rest |-> xs]

\* The tag byte a successful probe appended, as a log item.
ProbeItems(p) == IF p.bytes = <<>> THEN <<>> ELSE <<Item("tag", p.bytes)>>

\* A plausible slip: an empty sequence gets an explicit (End, 0) header.
serialize_seq_emptyHeader ==
    /\ AtValue("seq")
    /\ IF Top.v.len # <<>>
       THEN /\ len' = Top.v.len[1]
            /\ Go(IF Top.v.len[1] = 0
                  THEN <<Item("tag", <<FieldType_End>>),
                         Item("count", CountBytes(variant, 0))>>
                  ELSE <<>>,
                  <<SeqFrame("seq", Top.v.elems)>> \o Tail(stack))
       ELSE /\ Unsupported(<<>>)
            /\ UNCHANGED len
    /\ UNCHANGED is_initial

serialize_seq ==
    /\ AtValue("seq")
    /\ IF Top.v.len # <<>>
       THEN /\ len' = Top.v.len[1]
            /\ Go(<<>>, <<SeqFrame("seq", Top.v.elems)>> \o Tail(stack))
       ELSE /\ Unsupported(<<>>)
            /\ UNCHANGED len
    /\ UNCHANGED is_initial

serialize_tuple ==
    /\ AtValue("tuple")
    /\ len' = Top.v.size
    /\ Go(<<>>, <<SeqFrame("tuple", Top.v.elems)>> \o Tail(stack))
    /\ UNCHANGED is_initial

\* A plausible slip: the header is written but len is never cleared.
SerializeSeq_serialize_element_keepLen ==
    /\ AtFrame("seq") /\ Top.rest # <<>>
    /\ LET element == Head(Top.rest)
           p == FieldTypeSerializer(element)
           next == <<ValueFrame(element), SeqFrame("seq", Tail(Top.rest))>>
                       \o Tail(stack)
       IN  IF len # 0
           THEN IF p.res = "err"
                THEN Unsupported(ProbeItems(p))
                ELSE Go(ProbeItems(p)
                            \o <<Item("count", CountBytes(variant, len))>>,
                        next)
           ELSE Go(<<>>, next)
    /\ UNCHANGED <<is_initial, len>>

SerializeSeq_serialize_element ==
    /\ AtFrame("seq") /\ Top.rest # <<>>
    /\ LET element == Head(Top.rest)
           p == FieldTypeSerializer(element)
           next == <<ValueFrame(element), SeqFrame("seq", Tail(Top.rest))>>
                       \o Tail(stack)
       IN  IF len # 0
           THEN IF p.res = "err"
                THEN /\ Unsupported(ProbeItems(p))
                     /\ UNCHANGED len
                ELSE /\ Go(ProbeItems(p)
                            \o <<Item("count", CountBytes(variant, len))>>,
                           next)
                     /\ len' = IF Fits(ProbeItems(p)
                                  \o <<Item("count", CountBytes(variant, len))>>)
                               THEN 0 ELSE len
           ELSE /\ Go(<<>>, next)
                /\ UNCHANGED len
    /\ UNCHANGED is_initial

SerializeSeq_end ==
    /\ AtFrame("seq") /\ Top.rest = <<>>
    /\ Go(<<>>, Tail(stack))
    /\ UNCHANGED <<is_initial, len>>

SerializeTuple_serialize_element ==
    /\ AtFrame("tuple") /\ Top.rest # <<>>
    /\ LET element == Head(Top.rest)
           p == FieldTypeSerializer(element)
           next == <<ValueFrame(element), SeqFrame("tuple", Tail(Top.rest))>>
                       \o Tail(stack)
       IN  IF len # 0
           THEN IF p.res = "err"
                THEN /\ Unsupported(ProbeItems(p))
                     /\ UNCHANGED len
                ELSE /\ Go(ProbeItems(p)
                            \o <<Item("count", CountBytes(variant, len))>>,
                           next)
                     /\ len' = IF Fits(ProbeItems(p)
                                  \o <<Item("count", CountBytes(variant, len))>>)
                               THEN 0 ELSE len
           ELSE /\ Go(<<>>, next)
                /\ UNCHANGED len
    /\ UNCHANGED is_initial

SerializeTuple_end ==
    /\ AtFrame("tuple") /\ Top.rest = <<>>
    /\ Go(<<>>, Tail(stack))
    /\ UNCHANGED <<is_initial, len>>

\* --------------------------------------- Primary Encoder: compounds
\* The root header written while is_initial holds; "enter" records that a
\* compound was entered and carries no byte.
Enter(name) ==
    <<Item("enter", <<>>)>>
    \o (IF is_initial
        THEN <<Item("root", <<FieldType_Compound>>)>> \o StrItems(variant, name)
        ELSE <<>>)

serialize_map ==
    /\ AtValue("map")
    /\ Go(Enter(<<>>), <<SeqFrame("map", Top.v.entries)>> \o Tail(stack))
    /\ is_initial' = (is_initial /\ ~Fits(Enter(<<>>)))
    /\ UNCHANGED len

SerializeMap_serialize_entry ==
    /\ AtFrame("map") /\ Top.rest # <<>>
    /\ LET key == Head(Top.rest)[1]
           val == Head(Top.rest)[2]
           p == FieldTypeSerializer(val)
       IN  IF p.res = "err"
           THEN Unsupported(ProbeItems(p))
           ELSE Go(ProbeItems(p),
                   <<ValueFrame(key), ValueFrame(val),
                     SeqFrame("map", Tail(Top.rest))>> \o Tail(stack))
    /\ UNCHANGED <<is_initial, len>>

SerializeMap_end ==
    /\ AtFrame("map") /\ Top.rest = <<>>
    /\ Go(<<Item("end", <<FieldType_End>>)>>, Tail(stack))
    /\ UNCHANGED <<is_initial, len>>

serialize_struct ==
    /\ AtValue("struct")
    /\ Go(Enter(Top.v.name), <<SeqFrame("struct", Top.v.fields)>> \o Tail(stack))
    /\ is_initial' = (is_initial /\ ~Fits(Enter(Top.v.name)))
    /\ UNCHANGED len

\* A plausible slip in serialize_field: should_skip is ignored.
ShouldSkip_never(p) == FALSE

\* serialize_field: `let should_skip = value.serialize(ty_serializer)?`.
ShouldSkip(p) == p.res = "true"

\* A plausible slip in serialize_field: the network arm forgets the name.
KeyItems_netNoName(e, key) ==
    IF e = "NetworkEndian"
    THEN <<Item("strlen", KeyLenBytes(e, Len(key)))>>
    ELSE <<Item("strlen", KeyLenBytes(e, Len(key))), Item("name", key)>>

\* serialize_field: the name-length field, then the name bytes.
KeyItems(e, key) ==
    <<Item("strlen", KeyLenBytes(e, Len(key))), Item("name", key)>>

SerializeStruct_serialize_field ==
    /\ AtFrame("struct") /\ Top.rest # <<>>
    /\ LET key == Head(Top.rest)[1]
           val == Head(Top.rest)[2]
           p == FieldTypeSerializer(val)
           after == SeqFrame("struct", Tail(Top.rest))
       IN  IF p.res = "err"
           THEN Unsupported(ProbeItems(p))
           ELSE IF ~ShouldSkip(p)
                THEN Go(ProbeItems(p) \o KeyItems(variant, key),
                        <<ValueFrame(val), after>> \o Tail(stack))
                ELSE Go(ProbeItems(p), <<after>> \o Tail(stack))
    /\ UNCHANGED <<is_initial, len>>

\* A plausible slip: a struct is closed without its End tag.
SerializeStruct_end_silent ==
    /\ AtFrame("struct") /\ Top.rest = <<>>
    /\ Go(<<>>, Tail(stack))
    /\ UNCHANGED <<is_initial, len>>

SerializeStruct_end ==
    /\ AtFrame("struct") /\ Top.rest = <<>>
    /\ Go(<<Item("end", <<FieldType_End>>)>>, Tail(stack))
    /\ UNCHANGED <<is_initial, len>>

\* ---------------------------------------------------- specification
Next ==
    \/ \E e \in Variants, t \in {"id", "strip", "unwrap"} : to_bytes(e, t)
    \/ to_bytes_return
    \/ forward_unsupported
    \/ serialize_bool
    \/ serialize_i8
    \/ serialize_i16
    \/ serialize_i32
    \/ serialize_i64
    \/ serialize_f32
    \/ serialize_f64
    \/ serialize_str
    \/ serialize_bytes
    \/ serialize_none
    \/ serialize_some
    \/ serialize_unit
    \/ serialize_unit_struct
    \/ serialize_unit_variant
    \/ serialize_newtype_struct
    \/ serialize_newtype_variant
    \/ serialize_seq
    \/ serialize_tuple
    \/ serialize_tuple_struct
    \/ serialize_tuple_variant
    \/ serialize_map
    \/ serialize_struct
    \/ serialize_struct_variant
    \/ SerializeSeq_serialize_element
    \/ SerializeSeq_end
    \/ SerializeTuple_serialize_element
    \/ SerializeTuple_end
    \/ SerializeMap_serialize_entry
    \/ SerializeMap_end
    \/ SerializeStruct_serialize_field
    \/ SerializeStruct_end

Spec == Init /\ [][Next]_vars

\* The values encoded into a fixed-size sink.
IoValues == Atoms \cup Records \cup Nest(1)

\* Serializer::new inside the first to_bytes_in call, the writer being a
\* buffer of at most MaxCap bytes.
InitIo ==
    /\ value \in IoValues
    /\ variant \in Variants
    /\ xform \in Xforms(value)
    /\ stack = <<ValueFrame(Transform(xform, value))>>
    /\ status = "running"
    /\ writer = <<>>
    /\ is_initial = TRUE
    /\ len = 0
    /\ log = <<>>
    /\ prev = NoPrev
    /\ cap \in {<<n>> : n \in 0..MaxCap}

SpecIo == InitIo /\ [][Next]_vars

TypeOK ==
    /\ status \in {"running", "ok", "unsupported", "io"}
    /\ writer = Cat(log)
    /\ len \in Nat
    /\ is_initial \in BOOLEAN

\* ------------------------------------------------------------ claims
Done == status # "running"
PrevDone == prev.status # "none"

\* A length field followed by the bytes it counts, per the variant table.
Prefixed(e, b) ==
    (CASE e = "BigEndian" -> <<Len(b) \div 256, Len(b) % 256>>
       [] e = "LittleEndian" -> <<Len(b) % 256, Len(b) \div 256>>
       [] OTHER -> UVarint(Len(b))) \o b

\* A 32-bit signed integer per the variant table.
IntField(e, v) ==
    CASE e = "BigEndian" -> BEBytes(v, 4)
      [] e = "LittleEndian" -> LEBytes(v, 4)
      [] OTHER -> IVarint(v)

Count(items, k) == Cardinality({i \in DOMAIN items : items[i].k = k})

IsRecord(v) ==
    /\ v.kind = "struct"
    /\ Len(v.fields) = 1
    /\ v.fields[1][2].kind = "i32"

\* C1: a successful encode of a root struct N with one i32 field f = v is
\* exactly Compound(10), N length-prefixed, Int(3), f length-prefixed, v as
\* 4 bytes BE / 4 bytes LE / varint, End(0).
C1_RecordLayout ==
    (status = "ok" /\ IsRecord(input)) =>
        writer = <<10>> \o Prefixed(variant, input.name)
                 \o <<3>> \o Prefixed(variant, input.fields[1][1])
                 \o IntField(variant, input.fields[1][2].val)
                 \o <<0>>

C1_Witness ==
    /\ status = "ok" /\ IsRecord(input)
    /\ variant = "NetworkEndian"
    /\ input.fields[1][2].val = 300
    /\ input.name # <<>>

StripPair ==
    /\ Done /\ PrevDone
    /\ prev.variant = variant
    /\ {prev.xform, xform} = {"id", "strip"}

AtAbsentField ==
    /\ AtFrame("struct") /\ Top.rest # <<>>
    /\ Head(Top.rest)[2].kind = "none"

\* C2: serialize_field on an absent optional succeeds and writes nothing,
\* and the output of a value equals, byte for byte, the output of the same
\* value with its absent struct fields removed.
C2_AbsentFieldOmitted ==
    /\ [][AtAbsentField =>
            /\ writer' = writer
            /\ status' = "running"
            /\ stack' = <<[Top EXCEPT !.rest = Tail(Top.rest)]>> \o Tail(stack)
            /\ UNCHANGED <<is_initial, len>>]_vars
    /\ [](StripPair =>
            /\ prev.status = status
            /\ prev.writer = writer
            /\ Len(prev.writer) = Len(writer))

C2_Witness ==
    /\ StripPair
    /\ status = "ok"
    /\ prev.xform = "id"
    /\ value.kind = "struct"
    /\ Len(value.fields) = 2
    /\ value.fields[1][2].kind = "none"
    /\ value.fields[2][2].kind = "i32"

IsSomeStrRecord(v) ==
    /\ v.kind = "struct"
    /\ Len(v.fields) = 1
    /\ v.fields[1][2].kind = "some"
    /\ v.fields[1][2].inner.kind = "str"

\* C3: a struct field holding a present optional wrapping a string s is
\* encoded successfully, as String(8), the field name and s length-prefixed.
C3_PresentOptionalAsPlain ==
    (Done /\ IsSomeStrRecord(input)) =>
        /\ status = "ok"
        /\ writer = <<10>> \o Prefixed(variant, input.name)
                    \o <<8>> \o Prefixed(variant, input.fields[1][1])
                    \o Prefixed(variant, input.fields[1][2].inner.bytes)
                    \o <<0>>

IsIntList(v) ==
    /\ v.kind = "seq"
    /\ Len(v.elems) >= 1
    /\ v.len = <<Len(v.elems)>>
    /\ \A i \in 1..Len(v.elems) : v.elems[i].kind = "i32"

RECURSIVE Varints(_)
Varints(xs) == IF xs = <<>> THEN <<>>
               ELSE IVarint(Head(xs).val) \o Varints(Tail(xs))

\* The list payload C4 expects: Int tag, count, the values, nothing else.
NetIntList(v) == <<3>> \o IVarint(Len(v.elems)) \o Varints(v.elems)

IsIntListRecord(v) ==
    /\ v.kind = "struct"
    /\ Len(v.fields) = 1
    /\ IsIntList(v.fields[1][2])

\* C4: under the network variant a sequence of n >= 1 i32 is the Int tag,
\* the varint count n, the n varint values, and no terminator; checked for
\* a top-level sequence and for one held by the only field of a root struct.
C4_NetworkIntList ==
    (Done /\ variant = "NetworkEndian") =>
        /\ IsIntList(input) =>
              status = "ok" /\ writer = NetIntList(input)
        /\ IsIntListRecord(input) =>
              /\ status = "ok"
              /\ writer = <<10>> \o Prefixed(variant, input.name)
                          \o <<9>> \o Prefixed(variant, input.fields[1][1])
                          \o NetIntList(input.fields[1][2])
                          \o <<0>>

C4_Witness ==
    /\ status = "ok" /\ variant = "NetworkEndian"
    /\ IsIntList(input)
    /\ Len(input.elems) = 3
    /\ input.elems[2].val = -150

RECURSIVE Nested(_, _)
\* Every "end" of the log closes the innermost open "enter", none is left.
Nested(items, open) ==
    IF items = <<>> THEN open = 0
    ELSE CASE Head(items).k = "enter" -> Nested(Tail(items), open + 1)
           [] Head(items).k = "end" ->
                open > 0 /\ Nested(Tail(items), open - 1)
           [] OTHER -> Nested(Tail(items), open)

\* C5: in a successful encode the End bytes written and the compounds
\* entered pair up one to one, each End after its compound's entries.
C5_OneEndPerCompound ==
    status = "ok" =>
        /\ Count(log, "end") = Count(log, "enter")
        /\ Nested(log, 0)
        /\ \A i \in DOMAIN log : log[i].k = "end" => log[i].b = <<0>>

C5_Witness ==
    /\ status = "ok"
    /\ Count(log, "enter") >= 3
    /\ input.kind = "seq"
    /\ \E i \in DOMAIN log :
          /\ i < Len(log)
          /\ log[i].k = "enter" /\ log[i + 1].k = "end"

BareRejected == {"u32", "none", "some", "unit"}

\* C6: a bare u32, optional or unit at top level fails with Unsupported and
\* nothing is ever written to the sink.
C6_BareValueRejected ==
    (input.kind \in BareRejected) =>
        /\ status \in {"running", "unsupported"}
        /\ writer = <<>>

C6_Witness ==
    /\ status = "unsupported"
    /\ input.kind = "unit"
    /\ writer = <<>>

TableKinds == {"i16", "i32", "i64", "f32", "f64", "strlen", "count"}

\* The items of a log with the bytes of the rule-table fields blanked.
Structure(items) ==
    [i \in DOMAIN items |->
        IF items[i].k \in TableKinds THEN Item(items[i].k, <<>>)
        ELSE items[i]]

VariantPair ==
    /\ Done /\ PrevDone
    /\ prev.xform = xform
    /\ prev.variant # variant

\* C7: the encodes of one value under two variants write the same tags,
\* names, string bytes and End markers in the same order, and differ only
\* inside the fields the variant table governs.
C7_SameStructure ==
    (VariantPair /\ prev.status = "ok") =>
        /\ status = "ok"
        /\ Structure(prev.log) = Structure(log)

C7_Witness ==
    /\ VariantPair
    /\ prev.status = "ok" /\ status = "ok"
    /\ prev.writer # writer
    /\ Count(log, "name") >= 2
    /\ Count(log, "end") >= 2

\* C8: an encode that enters a compound writes exactly one root header, as
\* the first bytes of the output, when it enters its first compound, and
\* the root-written flag is set from then on.  Stated for the encodes that
\* succeed, where it already fails.
C8_RootHeaderOpens ==
    (status = "ok" /\ Count(log, "enter") >= 1) =>
        /\ Count(log, "root") = 1
        /\ log[1].k = "enter"
        /\ log[2].k = "root"
        /\ ~is_initial

\* The shapes C9 lists as rejected by the Primary Encoder.
PrimaryRejects(v) ==
    \/ v.kind \in ForwardUnsupported \cup RejectedShapes
    \/ v.kind = "seq" /\ v.len = <<>>

\* The value the next step probes, as a set (empty when it probes nothing).
Probed ==
    IF status = "running" /\ stack # <<>> /\ Top.f # "value"
       /\ Top.rest # <<>>
    THEN CASE Top.f \in {"seq", "tuple"} ->
                IF len # 0 THEN {Head(Top.rest)} ELSE {}
           [] OTHER -> {Head(Top.rest)[2]}
    ELSE {}

\* C9: a probe of a shape the Primary Encoder rejects fails with
\* Unsupported and writes no byte.
C9_ProbeRejectsAlike ==
    [][\A v \in Probed : PrimaryRejects(v) =>
            status' = "unsupported" /\ writer' = writer]_vars

IsOption(v) == v.kind \in {"none", "some"}

RECURSIVE HasOptionOutsideField(_)
\* v holds an optional as a sequence/tuple element or as a map value.
HasOptionOutsideField(v) ==
    CASE v.kind \in {"seq", "tuple"} ->
           \E i \in 1..Len(v.elems) :
               IsOption(v.elems[i]) \/ HasOptionOutsideField(v.elems[i])
      [] v.kind = "map" ->
           \E i \in 1..Len(v.entries) :
               \/ IsOption(v.entries[i][2])
               \/ HasOptionOutsideField(v.entries[i][2])
      [] v.kind = "struct" ->
           \E i \in 1..Len(v.fields) : HasOptionOutsideField(v.fields[i][2])
      [] OTHER -> FALSE

\* C10: an optional as the top-level value, as a sequence or tuple element
\* or as a map value makes the encode fail with Unsupported.
C10_OptionOutsideFieldFails ==
    (Done /\ (IsOption(input) \/ HasOptionOutsideField(input))) =>
        status = "unsupported"

C10_Witness ==
    /\ status = "unsupported"
    /\ input.kind = "seq"
    /\ Len(input.elems) = 2
    /\ input.elems[1].kind = "i32"
    /\ input.elems[2].kind = "some"
    /\ writer # <<>>

IsPrefix(a, b) == Len(a) <= Len(b) /\ SubSeq(b, 1, Len(a)) = a

Failed == status \in {"unsupported", "io"}

\* C11: the sink only grows: every step of an encode keeps the earlier
\* content as a prefix, the failing step included, so that a failed encode
\* (unsupported shape or rejected write) returns with every byte written
\* before the failure still in the sink.
C11_AppendOnlyNoRollback ==
    /\ [][status = "running" =>
            /\ IsPrefix(writer, writer')
            /\ IsPrefix(log, log')]_vars
    /\ [](Failed => writer = Cat(log))

C11_Witness ==
    /\ status = "io"
    /\ input.kind = "struct"
    /\ cap[1] >= 5
    /\ Len(writer) = cap[1]
    /\ Count(log, "name") >= 1

\* The tag C12 expects the probe to write for a value of kind k.
ProbeTagOf(k) ==
    CASE k \in {"bool", "i8"} -> FieldType_Byte
      [] k = "i16" -> FieldType_Short
      [] k = "i32" -> FieldType_Int
      [] k = "i64" -> FieldType_Long
      [] k = "f32" -> FieldType_Float
      [] k = "f64" -> FieldType_Double
      [] k = "str" -> FieldType_String
      [] k = "bytes" -> FieldType_ByteArray
      [] k \in {"seq", "tuple"} -> FieldType_List
      [] k \in {"map", "struct"} -> FieldType_Compound

TaggedKinds ==
    {"bool", "i8", "i16", "i32", "i64", "f32", "f64", "str", "bytes",
     "seq", "tuple", "map", "struct"}

\* What the step that probes v appended to the log.
Appended == SubSeq(log', Len(log) + 1, Len(log'))

\* The field the probe reported on is encoded (not omitted) / is skipped.
FieldKept(v) ==
    /\ Count(Appended, "name") = 1
    /\ Head(stack') = ValueFrame(v)
FieldSkipped ==
    /\ writer' = writer
    /\ stack' = <<[Top EXCEPT !.rest = Tail(Top.rest)]>> \o Tail(stack)

\* C12: a probe appends at most one byte, a tag, and leaves is_initial and
\* len alone: exactly the tag of its kind for a leaf scalar, List for a
\* sequence or tuple and Compound for a map or struct whatever they
\* contain, reporting "do not omit"; nothing and "omit" for an absent
\* optional.  The only change of len in a probing step is the reset the
\* Primary Encoder does after writing the list header.
C12_ProbeWritesOneTag ==
    [][\A v \in Probed :
          /\ Count(Appended, "tag") <= 1
          /\ \A i \in DOMAIN Appended :
                Appended[i].k = "tag" => i = 1 /\ Len(Appended[i].b) = 1
          /\ is_initial' = is_initial
          /\ len' = IF Top.f \in {"seq", "tuple"} /\ status' = "running"
                    THEN 0 ELSE len
          /\ v.kind \in TaggedKinds =>
                /\ Appended # <<>>
                /\ Appended[1] = Item("tag", <<ProbeTagOf(v.kind)>>)
                /\ status' = "running"
                /\ Top.f = "struct" => FieldKept(v)
          /\ v.kind = "none" =>
                /\ Count(Appended, "tag") = 0
                /\ Top.f = "struct" => FieldSkipped]_vars

C12_Witness ==
    /\ status = "running" /\ stack # <<>>
    /\ Top.f = "value" /\ Top.v.kind = "seq" /\ Len(Top.v.elems) = 2
    /\ Len(stack) >= 2 /\ stack[2].f = "struct"
    /\ log[Len(log)].k = "name"
    /\ log[Len(log) - 2] = Item("tag", <<9>>)

\* Every sequence and tuple in v supplies as many elements as it declares.
RECURSIVE Exact(_)
Exact(v) ==
    CASE v.kind = "seq" ->
            /\ v.len = <<Len(v.elems)>>
            /\ \A i \in DOMAIN v.elems : Exact(v.elems[i])
      [] v.kind = "tuple" ->
            /\ v.size = Len(v.elems)
            /\ \A i \in DOMAIN v.elems : Exact(v.elems[i])
      [] v.kind = "map" ->
            \A i \in DOMAIN v.entries :
                Exact(v.entries[i][1]) /\ Exact(v.entries[i][2])
      [] v.kind = "struct" ->
            \A i \in DOMAIN v.fields : Exact(v.fields[i][2])
      [] v.kind = "some" -> Exact(v.inner)
      [] OTHER -> TRUE

Header(tag, count) == [tag |-> tag, count |-> count]

\* The headers C13 expects from a successful encode of v, in stream order:
\* one per non-empty sequence, with the tag of its first element and its
\* own declared length.
RECURSIVE Headers(_, _), HeadersAll(_, _)
Headers(v, e) ==
    CASE v.kind \in {"seq", "tuple"} ->
            (IF v.elems = <<>> THEN <<>>
             ELSE <<Header(<<ProbeTagOf(v.elems[1].kind)>>,
                           CountBytes(e, IF v.kind = "seq" THEN v.len[1]
                                         ELSE v.size))>>)
            \o HeadersAll(v.elems, e)
      [] v.kind = "map" ->
            HeadersAll([i \in 1..(2 * Len(v.entries)) |->
                           v.entries[(i + 1) \div 2][2 - (i % 2)]], e)
      [] v.kind = "struct" ->
            HeadersAll([i \in 1..Len(v.fields) |-> v.fields[i][2]], e)
      [] OTHER -> <<>>
HeadersAll(xs, e) ==
    IF xs = <<>> THEN <<>> ELSE Headers(Head(xs), e) \o HeadersAll(Tail(xs), e)

\* The headers a log holds: every count that is not a byte array's length,
\* with the tag written just before it.
RECURSIVE LogHeaders(_, _)
LogHeaders(l, i) ==
    IF i > Len(l) THEN <<>>
    ELSE (IF l[i].k = "count" /\ (i = Len(l) \/ l[i + 1].k # "blob")
          THEN <<Header(IF i > 1 /\ l[i - 1].k = "tag" THEN l[i - 1].b
                        ELSE <<>>, l[i].b)>>
          ELSE <<>>) \o LogHeaders(l, i + 1)

AtElement ==
    /\ status = "running" /\ stack # <<>>
    /\ Top.f \in {"seq", "tuple"} /\ Top.rest # <<>>

\* The step finished an element: control is back in a sequence's frame.
ElementEncoded ==
    /\ status = "running" /\ status' = "running"
    /\ stack' # <<>> /\ Len(stack') < Len(stack)
    /\ Head(stack').f \in {"seq", "tuple"}

\* C13: in a value whose sequences and tuples all supply as many elements
\* as they declare, a successful encode holds exactly one (tag, count)
\* header per non-empty sequence, in stream order, with the probe tag of
\* its first element and its own declared length; a header is written by
\* the step that starts an element and is followed at once by that
\* element; len is 0 once an element is started and when it is finished,
\* and a non-zero len at a sequence is that sequence's whole length.
C13_OneHeaderPerSequence ==
    /\ [](status = "ok" /\ Exact(input)
            => LogHeaders(log, 1) = Headers(input, variant))
    /\ [](AtElement /\ Exact(input) /\ len # 0 => len = Len(Top.rest))
    /\ [][AtElement /\ Exact(input) /\ status' = "running" =>
            /\ len' = 0
            /\ Head(stack') = ValueFrame(Head(Top.rest))
            /\ Appended # <<>> =>
                  /\ len # 0
                  /\ Appended[Len(Appended)]
                        = Item("count", CountBytes(variant, len))]_vars
    /\ [][ElementEncoded /\ Exact(input) => len' = 0]_vars

C13_Witness ==
    /\ status = "ok" /\ Exact(input)
    /\ input.kind = "seq" /\ Len(input.elems) = 2
    /\ input.elems[1].kind = "struct"
    /\ LogHeaders(log, 1)
          = <<Header(<<10>>, CountBytes(variant, 2)),
              Header(<<3>>, CountBytes(variant, 2)),
              Header(<<3>>, CountBytes(variant, 2))>>

\* A sequence or tuple that declares no elements and supplies none.
IsEmptySeq(v) ==
    /\ v.kind \in {"seq", "tuple"}
    /\ v.elems = <<>>
    /\ IF v.kind = "seq" THEN v.len = <<0>> ELSE v.size = 0

\* The encoder is about to open an empty sequence / to close one.
AtEmptySeq ==
    /\ status = "running" /\ stack # <<>>
    /\ Top.f = "value" /\ IsEmptySeq(Top.v)
AtEmptySeqEnd ==
    /\ status = "running" /\ stack # <<>>
    /\ Top.f \in {"seq", "tuple"} /\ Top.rest = <<>> /\ len = 0

HoldsEmptySeq(v) ==
    /\ v.kind = "struct"
    /\ Len(v.fields) = 1
    /\ IsEmptySeq(v.fields[1][2])

\* C14: a sequence of declared length 0 (supplying none) writes nothing:
\* opening it and closing it leave the stream as it was and the encode
\* goes on; a root struct whose one field holds such a sequence encodes
\* successfully as the root header, the List tag, the field name and the
\* struct's End with nothing between the name and the End.
C14_EmptySequenceNoBytes ==
    /\ [][AtEmptySeq =>
            /\ writer' = writer /\ Appended = <<>>
            /\ status' = "running" /\ len' = 0
            /\ stack' = <<SeqFrame(Top.v.kind, <<>>)>> \o Tail(stack)]_vars
    /\ [][AtEmptySeqEnd =>
            /\ writer' = writer /\ Appended = <<>>
            /\ status' = "running" /\ len' = 0
            /\ stack' = Tail(stack)]_vars
    /\ [](Done /\ HoldsEmptySeq(input) =>
            /\ status = "ok"
            /\ writer = <<10>> \o Prefixed(variant, input.name)
                        \o <<9>> \o Prefixed(variant, input.fields[1][1])
                        \o <<0>>)

C14_Witness ==
    /\ status = "ok" /\ HoldsEmptySeq(input)
    /\ variant = "NetworkEndian"
    /\ Len(writer) = 7

\* The value a two-byte length field holds, read back per the variant.
U16Value(e, b) ==
    IF e = "BigEndian" THEN b[1] * 256 + b[2] ELSE b[2] * 256 + b[1]

\* b behind the 16-bit field C15 describes: L mod 2^16, then all L bytes.
Wrapped(e, b) ==
    (IF e = "BigEndian"
     THEN <<(Len(b) % 65536) \div 256, Len(b) % 256>>
     ELSE <<Len(b) % 256, (Len(b) % 65536) \div 256>>) \o b

FixedEndian == variant \in {"BigEndian", "LittleEndian"}

HoldsStr(v) ==
    /\ v.kind = "struct"
    /\ Len(v.fields) = 1
    /\ v.fields[1][2].kind = "str"

====
